---------------------------- MODULE Spec2Model ----------------------------
(***************************************************************************)
(* A model of films_organizer.py: the metadata run (generate_films_index   *)
(* with _get_url, _do_omdb_search, _do_imdb_search) and the link tree      *)
(* (create_films_tree), the scan of the library (generate_base_index), the *)
(* actors tree (populate_actors_tree), the paging of an actor's            *)
(* filmography (_get_imdb_actor_filmography), the renaming of film files   *)
(* (normalize_film_files), the list of actors (generate_actors_list with   *)
(* _get_imdb_actor_info) and the filmographies file                        *)
(* (generate_actors_filmography).                                          *)
(*                                                                         *)
(* Conventions.  A text that the code splits is a sequence of one-letter   *)
(* strings; a character that cannot be written in a string is "U+" and its *)
(* code point in decimal.  A Python value that may be None is a sequence   *)
(* of length 0 (None) or 1 (the value).  A file is the sequence of its     *)
(* rows.                                                                   *)
(***************************************************************************)
EXTENDS Integers, Sequences, FiniteSets, TLC

VARIABLES
    \* ---- files under libroot and the working directory
    key_file,         \* the file omdb_api_key: None, or <<its content>>
    base_exists,      \* TRUE iff base_index.tsv exists
    base_index,       \* rows of base_index.tsv: [filmname, filmyear, filmpath]
    films_index,      \* rows of films_index.tsv (6 columns)
    faulty_films,     \* faulty_films_base_index.tsv: [exists, rows]
    \* ---- generate_films_index
    mode,             \* args_obj.mode
    pc,               \* position of the running command
    omdb_key,         \* the key in use, "" for none
    key_check,        \* how the key was obtained (history)
    processed_films,  \* set of paths read from the existing films index
    write_mode,       \* "a" or "w"
    line,             \* number of base-index lines read so far
    cur,              \* the line being processed: None or <<entry>>
    metadata,         \* None or <<metadata>>
    \* ---- _get_url
    url,              \* the query in flight
    i,                \* loop index of _get_url
    res,              \* the local res of _get_url
    attempts,         \* outcome of each request of the call in flight (history)
    \* ---- history of the run
    old_index,        \* films_index.tsv as it was when the command started
    old_faulty,       \* TRUE iff a faulty file existed when the command started
    log,              \* per line searched: the providers' answers and the outcome
    \* ---- create_films_tree
    type,             \* args_obj.type
    create_symlinks,  \* args_obj.create_symlinks
    film_files,       \* film paths that exist on disk
    dirs,             \* directories under the tree root
    links,            \* links under the tree root: [dir, name, kind, target]
    row,              \* number of films-index rows processed in this run
    datum_i,          \* number of data of the current row processed
    run,              \* number of the create_films_tree run (1, 2, ...)
    created,          \* the links made by create_link in the current run
    prev_links,       \* the links as they were when the current run started
    \* ---- generate_base_index
    found,            \* the files rglob yields, in its order
    nodups,           \* args_obj.nodups
    pos,              \* number of files processed
    films_set,        \* (fname, fyear) pairs seen, when nodups
    numfilms,         \* rows written
    \* ---- populate_actors_tree
    filmography_exists, \* TRUE iff actors_filmography.tsv exists
    actors_filmography, \* lines of actors_filmography.tsv
    include_ratings,  \* args_obj.include_ratings
    films_dict,       \* (filmyear, filmname) -> filmpath, as a set of [key, path]
    actor_i,          \* number of filmography lines processed
    film_i,           \* number of films of the current line processed
    \* ---- _get_imdb_actor_filmography
    page_num,         \* the page last fetched
    filmography_list, \* the entries collected so far
    pages,            \* per page fetched: films on it and entries appended (history)
    \* ---- normalize_film_files
    lib_files,        \* the files under libroot: [dir, name, target, ino]
    lib_dirs,         \* the directories under libroot, libroot included
    walk,             \* the directories rglob has yet to list, in its order
    interactive,      \* args_obj.interactive
    postfix_year,     \* args_obj.postfix_year
    \* ---- generate_actors_list
    actors_list,      \* the (nmcode, role, name) collected so far
    call_i,           \* number of _get_imdb_actor_info calls made
    \* ---- generate_actors_filmography
    actors_list_tsv,  \* actors_list.tsv: [exists, rows]
    gaf_i             \* number of lines of actors_list.tsv processed

gfi_vars == <<key_file, base_exists, base_index, faulty_films, mode, omdb_key,
              key_check, processed_films, write_mode, line, cur, metadata,
              url, i, res, attempts, old_index, old_faulty, log>>
tree_vars == <<type, create_symlinks, film_files, dirs, links, row, datum_i,
               run, created, prev_links>>
gbi_vars == <<found, nodups, pos, films_set, numfilms>>
pat_vars == <<filmography_exists, actors_filmography, include_ratings, films_dict,
              actor_i, film_i>>
filmo_vars == <<page_num, filmography_list, pages>>
nff_vars == <<lib_files, lib_dirs, walk, interactive, postfix_year>>
gal_vars == <<actors_list, call_i>>
gaf_vars == <<actors_list_tsv, gaf_i>>
cmd_vars == <<nff_vars, gal_vars, gaf_vars>>
ext_vars == <<gbi_vars, pat_vars, filmo_vars, cmd_vars>>
vars == <<gfi_vars, tree_vars, ext_vars, films_index, pc>>

(***************************************************************************)
(* Bounds and input sets                                                   *)
(***************************************************************************)
MaxFilms == 2      \* rows of base_index.tsv / films_index.tsv in the inputs
MaxRuns == 2       \* successive create_films_tree runs

None == <<>>
Some(x) == <<x>>

\* texts, as sequences of letters
Text_C == <<"C">>
Text_D_R == <<"D", ",", " ", "R">>
Text_K_L == <<"K", ",", " ", "L">>
Text_J == <<"J">>
Text_D == <<"D">>
Text_K == <<"K">>

\* metadata as a provider returns it
Meta1 == [Director |-> Text_C, Genre |-> Text_D_R, Actors |-> Text_K_L]
Meta2 == [Director |-> Text_J, Genre |-> Text_D, Actors |-> Text_K]

Idents == {<<"Titanic", 1997>>, <<"Up", 2009>>}
\* a path is <<directory, base filename>>
Paths == {<<"/lib", "a.mkv">>, <<"/lib", "b.mkv">>, <<"/lib/x", "a.mkv">>}

BaseEntries == {[filmname |-> id[1], filmyear |-> id[2], filmpath |-> p] :
                    id \in Idents, p \in Paths}

SeqsUpTo(S, n) == UNION {[1..k -> S] : k \in 0..n}

DistinctPaths(s) == \A a, b \in DOMAIN s : a # b => s[a].filmpath # s[b].filmpath

\* base_index.tsv as generate_base_index writes it: one row per file found by
\* rglob, so no path occurs twice
BaseIndexes == {s \in SeqsUpTo(BaseEntries, MaxFilms) : DistinctPaths(s)}

Row(filmname, filmyear, md, filmpath) ==
    [filmname |-> filmname, filmyear |-> filmyear, Director |-> md.Director,
     Genre |-> md.Genre, Actors |-> md.Actors, filmpath |-> filmpath]

\* films_index.tsv left by earlier runs
OldIndexes ==
    { <<>>,
      << Row("Titanic", 1997, Meta1, <<"/lib", "a.mkv">>) >>,
      << Row("Up", 2009, Meta2, <<"/lib", "b.mkv">>) >>,
      << Row("Titanic", 1997, Meta1, <<"/lib", "b.mkv">>),
         Row("Up", 2009, Meta2, <<"/lib/x", "a.mkv">>) >> }

FaultyRow(e) == [filmname |-> e.filmname, filmyear |-> e.filmyear, filmpath |-> e.filmpath]

\* faulty_films_base_index.tsv left by earlier runs: none, or one with a row
OldFaulty ==
    { [exists |-> FALSE, rows |-> <<>>],
      [exists |-> TRUE,
       rows |-> << [filmname |-> "Up", filmyear |-> 2009, filmpath |-> <<"/lib", "b.mkv">>] >>] }

(***************************************************************************)
(* HTTP                                                                    *)
(***************************************************************************)
NoJson == [Response |-> "", Director |-> <<>>, Genre |-> <<>>, Actors |-> <<>>]
OmdbFalse == [Response |-> "False", Director |-> <<>>, Genre |-> <<>>, Actors |-> <<>>]
OmdbTrue(md) == [Response |-> "True", Director |-> md.Director, Genre |-> md.Genre,
                 Actors |-> md.Actors]

\* res of _get_url: got = FALSE is Python's None; json is the body of an OMDB
\* answer, divs the 'lister-item mode-advanced' blocks of an IMDB page
NoRes == [got |-> FALSE, json |-> NoJson, divs |-> <<>>]
OmdbRes(j) == [got |-> TRUE, json |-> j, divs |-> <<>>]
ImdbRes(d) == [got |-> TRUE, json |-> NoJson, divs |-> d]

\* the text of a 'lister-item-year' span
Span_1997 == <<"(", "1", "9", "9", "7", ")">>
Span_2009 == <<"(", "2", "0", "0", "9", ")">>

\* the link of a 'lister-item-header' block: its href and its text
Block_K == [href |-> <<"/", "n", "a", "m", "e", "/", "n", "m", "1">>, text |-> <<" ", "K", " ">>]
Block_L == [href |-> <<"/", "n", "a", "m", "e", "/", "n", "m", "2">>, text |-> <<"L">>]
Block_K_slash == [href |-> <<"/", "n", "a", "m", "e", "/", "n", "m", "1", "/">>, text |-> <<"K">>]

\* what a server may answer to a query: to a title search the year spans of
\* the blocks found, to a name search the links of the blocks found
Responses(u) ==
    IF u.svc = "omdb"
    THEN {OmdbRes(OmdbFalse), OmdbRes(OmdbTrue(Meta1))}
    ELSE IF u.svc = "title"
    THEN {ImdbRes(<<>>), ImdbRes(<<Span_1997>>), ImdbRes(<<Span_1997, Span_2009>>)}
    ELSE IF u.svc = "names"
    THEN {ImdbRes(<<>>), ImdbRes(<<Block_K, Block_L>>), ImdbRes(<<Block_K_slash>>)}
    ELSE {ImdbRes(<<>>), ImdbRes(<<Meta1>>), ImdbRes(<<Meta2, Meta1>>)}

NoUrl == [svc |-> "", title |-> "", min_year |-> 0, max_year |-> 0]

OmdbUrl(filmname, filmyear) ==
    [svc |-> "omdb", title |-> filmname, min_year |-> filmyear, max_year |-> filmyear]

ImdbUrl(filmname, filmyear) ==
    [svc |-> "imdb", title |-> filmname, min_year |-> filmyear - 1, max_year |-> filmyear + 1]

NewSearch == [omdb |-> NoJson, imdb_called |-> FALSE, divs |-> <<>>, dest |-> "pending"]


(***************************************************************************)
(* generate_films_index                                                    *)
(***************************************************************************)
Retries == 3

\* a variant that misses the last row of the file
ProcessedFilms_DropLast(index) == {index[k].filmpath : k \in 1..(Len(index) - 1)}

\* the path column of an existing films index
ProcessedFilms(index) == {index[k].filmpath : k \in DOMAIN index}

\* a variant that always truncates
WriteMode_Truncate(m) == "w"

WriteMode(m) == IF m = "extend" THEN "a" ELSE "w"

\* open(films_index_path, write_mode)
OpenIndex(index, wm) == IF wm = "w" THEN <<>> ELSE index

\* json.loads(res.text), and None when the answer says 'Response': 'False'
DoOmdbSearch(r) ==
    IF r.json.Response = "False"
    THEN None
    ELSE Some([Director |-> r.json.Director, Genre |-> r.json.Genre,
               Actors |-> r.json.Actors])

\* None for an empty result page, else the data of film_divs[0]
DoImdbSearch(r) ==
    IF Len(r.divs) = 0
    THEN None
    ELSE Some([Director |-> r.divs[1].Director, Genre |-> r.divs[1].Genre,
               Actors |-> r.divs[1].Actors])

\* films_index_file.write(...) when metadata was found
IndexAfter(index, e, md) ==
    IF md # None
    THEN Append(index, Row(e.filmname, e.filmyear, md[1], e.filmpath))
    ELSE index

\* a variant that forgets the write
FaultyAfter_Dropped(f, e, md) == f

\* faulty_films_file.write(...) when no metadata was found
FaultyAfter(f, e, md) ==
    IF md # None
    THEN f
    ELSE [f EXCEPT !.rows = Append(@, FaultyRow(e))]

\* a variant that never removes the file
FinishFaulty_Keep(f) == f

\* the file is removed when its size is 0
FinishFaulty(f) ==
    IF Len(f.rows) = 0
    THEN [exists |-> FALSE, rows |-> <<>>]
    ELSE f

Dest(md) == IF md # None THEN "films" ELSE "faulty"

CallUrl(u) ==
    /\ url' = u
    /\ i' = 0
    /\ res' = NoRes
    /\ attempts' = <<>>
    /\ pc' = "get_url"

\* lines 147-174: the key, then the check that base_index.tsv exists
Start ==
    /\ pc = "start"
    /\ \E input \in {"", "good", "bad"}, net_ok \in BOOLEAN :
        LET valid == net_ok /\ input = "good"
            stop == key_file = None /\ input # "" /\ ~valid
        IN  /\ key_check' = IF key_file # None THEN "file"
                            ELSE IF input = "" THEN "empty"
                            ELSE IF valid THEN "valid" ELSE "invalid"
            /\ omdb_key' = IF key_file # None THEN key_file[1] ELSE input
            /\ key_file' = IF key_file = None /\ input # "" /\ valid
                            THEN Some(input)
                            ELSE key_file
            /\ pc' = IF stop THEN "stopped_key"
                     ELSE IF ~base_exists THEN "stopped_nobase"
                     ELSE "open"
    /\ UNCHANGED <<base_exists, base_index, films_index, faulty_films, mode,
                   processed_films, write_mode, line, cur, metadata, url, i, res,
                   attempts, old_index, old_faulty, log, tree_vars, ext_vars>>

\* lines 176-187: the processed paths, and the three files opened
OpenFiles ==
    /\ pc = "open"
    /\ processed_films' = IF mode = "extend" THEN ProcessedFilms(films_index) ELSE {}
    /\ write_mode' = WriteMode(mode)
    /\ films_index' = OpenIndex(films_index, WriteMode(mode))
    /\ faulty_films' = [exists |-> TRUE, rows |-> <<>>]
    /\ pc' = "loop"
    /\ UNCHANGED <<key_file, base_exists, base_index, mode, omdb_key, key_check,
                   line, cur, metadata, url, i, res, attempts, old_index,
                   old_faulty, log, tree_vars, ext_vars>>

\* lines 188-199: the next line of base_index.tsv, up to its first query
NextLine ==
    /\ pc = "loop"
    /\ line < Len(base_index)
    /\ line' = line + 1
    /\ LET e == base_index[line + 1]
       IN  IF e.filmpath \in processed_films
           THEN /\ cur' = Some(e)
                /\ metadata' = None
                /\ UNCHANGED <<pc, url, i, res, attempts, log>>
           ELSE /\ cur' = Some(e)
                /\ metadata' = None
                /\ log' = ((line + 1) :> NewSearch) @@ log
                /\ IF omdb_key # ""
                   THEN CallUrl(OmdbUrl(e.filmname, e.filmyear))
                   ELSE CallUrl(ImdbUrl(e.filmname, e.filmyear))
    /\ UNCHANGED <<key_file, base_exists, base_index, films_index, faulty_films,
                   mode, omdb_key, key_check, processed_films, write_mode,
                   old_index, old_faulty, tree_vars, ext_vars>>

\* lines 365-373: one pass of the loop of _get_url
GetUrlAttempt ==
    /\ pc = "get_url"
    /\ i < Retries
    /\ \/ \E r \in Responses(url) :
            /\ res' = r
            /\ attempts' = Append(attempts, TRUE)
            /\ i' = i + 1
            /\ pc' = pc
       \/ /\ attempts' = Append(attempts, FALSE)
          /\ res' = res
          /\ IF i = 2
             THEN /\ pc' = "aborted"
                  /\ i' = i
             ELSE /\ pc' = pc
                  /\ i' = i + 1
    /\ UNCHANGED <<key_file, base_exists, base_index, films_index, faulty_films,
                   mode, omdb_key, key_check, processed_films, write_mode, line,
                   cur, metadata, url, old_index, old_faulty, log, tree_vars, ext_vars>>

\* lines 374, 379-382 and 198-202: _do_omdb_search returns
OmdbReturn ==
    /\ pc = "get_url"
    /\ i = Retries
    /\ url.svc = "omdb"
    /\ LET md == DoOmdbSearch(res)
           e == cur[1]
       IN  /\ metadata' = md
           /\ IF md = None
              THEN /\ CallUrl(ImdbUrl(e.filmname, e.filmyear))
                   /\ log' = [log EXCEPT ![line].omdb = res.json]
                   /\ UNCHANGED films_index
              ELSE /\ films_index' = IndexAfter(films_index, e, md)
                   /\ log' = [log EXCEPT ![line].omdb = res.json, ![line].dest = Dest(md)]
                   /\ pc' = "loop"
                   /\ UNCHANGED <<url, i, res, attempts>>
    /\ UNCHANGED <<key_file, base_exists, base_index, faulty_films, mode, omdb_key,
                   key_check, processed_films, write_mode, line, cur, old_index,
                   old_faulty, tree_vars, ext_vars>>

\* lines 374, 389-405 and 200-205: _do_imdb_search returns
ImdbReturn ==
    /\ pc = "get_url"
    /\ i = Retries
    /\ url.svc = "imdb"
    /\ LET md == DoImdbSearch(res)
           e == cur[1]
       IN  /\ metadata' = md
           /\ films_index' = IndexAfter(films_index, e, md)
           /\ faulty_films' = FaultyAfter(faulty_films, e, md)
           /\ log' = [log EXCEPT ![line].imdb_called = TRUE, ![line].divs = res.divs,
                                 ![line].dest = Dest(md)]
    /\ pc' = "loop"
    /\ UNCHANGED <<key_file, base_exists, base_index, mode, omdb_key, key_check,
                   processed_films, write_mode, line, cur, url, i, res, attempts,
                   old_index, old_faulty, tree_vars, ext_vars>>

\* lines 206-213: the files are closed, an empty faulty file is removed
Finish ==
    /\ pc = "loop"
    /\ line = Len(base_index)
    /\ faulty_films' = FinishFaulty(faulty_films)
    /\ pc' = "done"
    /\ UNCHANGED <<key_file, base_exists, base_index, films_index, mode, omdb_key,
                   key_check, processed_films, write_mode, line, cur, metadata,
                   url, i, res, attempts, old_index, old_faulty, log, tree_vars, ext_vars>>

GbiIdle ==
    /\ found = <<>>
    /\ nodups = FALSE
    /\ pos = 0
    /\ films_set = {}
    /\ numfilms = 0

PatIdle ==
    /\ filmography_exists = FALSE
    /\ actors_filmography = <<>>
    /\ include_ratings = FALSE
    /\ films_dict = {}
    /\ actor_i = 0
    /\ film_i = 0

FilmoIdle ==
    /\ page_num = 0
    /\ filmography_list = <<>>
    /\ pages = <<>>

NffIdle ==
    /\ lib_files = {}
    /\ lib_dirs = {}
    /\ walk = <<>>
    /\ interactive = FALSE
    /\ postfix_year = FALSE

GalIdle ==
    /\ actors_list = <<>>
    /\ call_i = 0

GafIdle ==
    /\ actors_list_tsv = [exists |-> FALSE, rows |-> <<>>]
    /\ gaf_i = 0

CmdIdle ==
    /\ NffIdle
    /\ GalIdle
    /\ GafIdle

TreeIdle ==
    /\ type = "genre"
    /\ create_symlinks = FALSE
    /\ film_files = {}
    /\ dirs = {}
    /\ links = {}
    /\ row = 0
    /\ datum_i = 0
    /\ run = 0
    /\ created = {}
    /\ prev_links = {}

Init ==
    /\ key_file \in {None, Some(""), Some("good")}
    /\ base_exists \in BOOLEAN
    /\ base_index \in (IF base_exists THEN BaseIndexes ELSE {<<>>})
    /\ films_index \in OldIndexes
    /\ old_index = films_index
    /\ faulty_films \in OldFaulty
    /\ mode \in {"extend", "overwrite"}
    /\ pc = "start"
    /\ omdb_key = ""
    /\ key_check = "none"
    /\ processed_films = {}
    /\ write_mode = ""
    /\ line = 0
    /\ cur = None
    /\ metadata = None
    /\ url = NoUrl
    /\ i = 0
    /\ res = NoRes
    /\ attempts = <<>>
    /\ old_faulty = faulty_films.exists
    /\ log = <<>>
    /\ TreeIdle
    /\ GbiIdle
    /\ PatIdle
    /\ FilmoIdle
    /\ CmdIdle

Next ==
    \/ Start
    \/ OpenFiles
    \/ NextLine
    \/ GetUrlAttempt
    \/ OmdbReturn
    \/ ImdbReturn
    \/ Finish

Spec == Init /\ [][Next]_vars

(***************************************************************************)
(* create_films_tree                                                       *)
(***************************************************************************)
Sep == <<",", " ">>

\* the least k with s[k .. k+Len(sep)-1] = sep, or 0
Find(s, sep) ==
    LET hits == {k \in 1..(Len(s) - Len(sep) + 1) :
                    SubSeq(s, k, k + Len(sep) - 1) = sep}
    IN  IF hits = {} THEN 0 ELSE CHOOSE k \in hits : \A h \in hits : k <= h

RECURSIVE Split(_, _)
\* str.split(sep)
Split(s, sep) ==
    LET k == Find(s, sep)
    IN  IF k = 0
        THEN <<s>>
        ELSE <<SubSeq(s, 1, k - 1)>> \o Split(SubSeq(s, k + Len(sep), Len(s)), sep)

\* os.path.basename
Basename(path) == path[2]

\* the column selected by args_obj.type
Data(r, t) ==
    IF t = "director" THEN r.Director
    ELSE IF t = "genre" THEN r.Genre
    ELSE r.Actors

LinkAt(lnks, d, n) == {l \in lnks : l.dir = d /\ l.name = n}

\* os.path.lexists(linkpath)
LExists(lnks, d, n) == LinkAt(lnks, d, n) # {}

\* os.path.exists(linkpath): a symbolic link is followed
Exists(lnks, files, d, n) ==
    \E l \in LinkAt(lnks, d, n) : l.kind = "hard" \/ l.target \in files

\* a variant that makes the link whatever is there
MustLink_Always(lnks, files, d, n) == TRUE

\* the test of line 254
MustLink(lnks, files, d, n) == ~Exists(lnks, files, d, n)

\* lines 255-256: a broken link is removed
Unlinked(lnks, d, n) == lnks \ LinkAt(lnks, d, n)

LinkKind(symlinks) == IF symlinks THEN "sym" ELSE "hard"

\* os.link needs its source; os.symlink does not
CanLink(symlinks, files, filmpath) == symlinks \/ filmpath \in files

NewLink(symlinks, d, n, filmpath) ==
    [dir |-> d, name |-> n, kind |-> LinkKind(symlinks), target |-> filmpath]

\* lines 227-239: a run starts
TreeStart ==
    /\ pc \in {"tree_idle", "tree_done"}
    /\ run < MaxRuns
    /\ run' = run + 1
    /\ row' = 0
    /\ datum_i' = 0
    /\ created' = {}
    /\ prev_links' = links
    /\ pc' = "tree_loop"
    /\ UNCHANGED <<gfi_vars, ext_vars, films_index, type, create_symlinks, film_files,
                   dirs, links>>

\* lines 250-257: one datum of the current row
TreeStep ==
    /\ pc = "tree_loop"
    /\ row < Len(films_index)
    /\ LET r == films_index[row + 1]
           filmpath == r.filmpath
           base_filmname == Basename(filmpath)
           data == Split(Data(r, type), Sep)
           datum == data[datum_i + 1]
       IN  /\ dirs' = dirs \cup {datum}
           /\ IF MustLink(links, film_files, datum, base_filmname)
              THEN IF CanLink(create_symlinks, film_files, filmpath)
                   THEN /\ links' = Unlinked(links, datum, base_filmname)
                                      \cup {NewLink(create_symlinks, datum,
                                                    base_filmname, filmpath)}
                        /\ created' = created \cup
                              {NewLink(create_symlinks, datum, base_filmname, filmpath)}
                        /\ pc' = pc
                   ELSE /\ links' = Unlinked(links, datum, base_filmname)
                        /\ created' = created
                        /\ pc' = "tree_crashed"
              ELSE UNCHANGED <<links, created, pc>>
           /\ IF /\ MustLink(links, film_files, datum, base_filmname)
                 /\ ~CanLink(create_symlinks, film_files, filmpath)
              THEN UNCHANGED <<row, datum_i>>
              ELSE IF datum_i + 1 = Len(data)
              THEN /\ row' = row + 1
                   /\ datum_i' = 0
              ELSE /\ row' = row
                   /\ datum_i' = datum_i + 1
    /\ UNCHANGED <<gfi_vars, ext_vars, films_index, type, create_symlinks, film_files,
                   run, prev_links>>

\* the loop of line 241 ends
TreeFinish ==
    /\ pc = "tree_loop"
    /\ row = Len(films_index)
    /\ pc' = "tree_done"
    /\ UNCHANGED <<gfi_vars, ext_vars, films_index, tree_vars>>

\* films_index.tsv as generate_films_index writes it
TreeRows ==
    {Row("Titanic", 1997, Meta1, p) : p \in Paths}
        \cup {Row("Up", 2009, Meta2, p) : p \in Paths}

\* a tree left by earlier runs: none, or a symbolic link to a film that has moved
OldTrees ==
    { {},
      {[dir |-> Text_D, name |-> "a.mkv", kind |-> "sym", target |-> <<"/old", "a.mkv">>]} }

GfiIdle ==
    /\ key_file = None
    /\ base_exists = FALSE
    /\ base_index = <<>>
    /\ faulty_films = [exists |-> FALSE, rows |-> <<>>]
    /\ mode = "extend"
    /\ omdb_key = ""
    /\ key_check = "none"
    /\ processed_films = {}
    /\ write_mode = ""
    /\ line = 0
    /\ cur = None
    /\ metadata = None
    /\ url = NoUrl
    /\ i = 0
    /\ res = NoRes
    /\ attempts = <<>>
    /\ old_index = <<>>
    /\ old_faulty = FALSE
    /\ log = <<>>

TreeInit ==
    /\ GfiIdle
    /\ GbiIdle
    /\ PatIdle
    /\ FilmoIdle
    /\ CmdIdle
    /\ films_index \in SeqsUpTo(TreeRows, MaxFilms)
    /\ type \in {"director", "genre", "actor"}
    /\ create_symlinks \in BOOLEAN
    /\ film_files \in SUBSET Paths
    /\ links \in OldTrees
    /\ dirs = {l.dir : l \in links}
    /\ row = 0
    /\ datum_i = 0
    /\ run = 0
    /\ created = {}
    /\ prev_links = {}
    /\ pc = "tree_idle"

TreeNext ==
    \/ TreeStart
    \/ TreeStep
    \/ TreeFinish

SpecTree == TreeInit /\ [][TreeNext]_vars

(***************************************************************************)
(* Properties of generate_films_index                                      *)
(***************************************************************************)
LookedUp == DOMAIN log

\* a provider returned at least one candidate for line k
Matched(k) == log[k].omdb.Response = "True" \/ Len(log[k].divs) > 0

\* no provider returned a candidate for line k, and the search is over
Failed(k) == log[k].dest # "pending" /\ ~Matched(k)

\* rows appended to the films index by this run
NewRows ==
    LET kept == IF mode = "extend" THEN Len(old_index) ELSE 0
    IN  [k \in 1..(Len(films_index) - kept) |-> films_index[kept + k]]

IndexRowsOf(e) ==
    Cardinality({k \in DOMAIN NewRows :
        /\ NewRows[k].filmname = e.filmname
        /\ NewRows[k].filmyear = e.filmyear
        /\ NewRows[k].filmpath = e.filmpath})

FaultyRowsOf(e) ==
    IF faulty_films.exists
    THEN Cardinality({k \in DOMAIN faulty_films.rows : faulty_films.rows[k] = FaultyRow(e)})
    ELSE 0

IsPrefix(s, t) == Len(s) <= Len(t) /\ \A k \in DOMAIN s : s[k] = t[k]

Terminated == pc \in {"done", "aborted", "stopped_key", "stopped_nobase"}

\* C1: a search whose last provider (the IMDB search) returned more than one
\* candidate is never written to the films index; the film is recorded as faulty.
C1_AmbiguousNeverAccepted ==
    \A k \in LookedUp :
        (log[k].imdb_called /\ Len(log[k].divs) > 1) => log[k].dest = "faulty"

\* C2: a key that fails validation does not stop the run.
C2_InvalidKeyDoesNotStop ==
    key_check = "invalid" => pc # "stopped_key"

\* C3: a call of _get_url aborts the run if and only if its three requests
\* failed, and a call that returns hands back a response.
C3_AbortIffThreeFailures ==
    /\ (pc = "aborted") <=> (attempts = <<FALSE, FALSE, FALSE>>)
    /\ (pc = "get_url" /\ i = Retries) => res.got

\* C14: within one call of _get_url a request follows only failed requests:
\* once a request has succeeded the call sends no other, so that a call whose
\* first request succeeds sends one request and returns its response.
C14_NoRequestAfterSuccess ==
    \A k \in DOMAIN attempts : attempts[k] => k = Len(attempts)

\* C4: while the run is not aborted, every line whose search is over has exactly
\* one row, in the films index if a provider returned a candidate and in the
\* faulty file if none did; a faulty film does not stop the loop, and a run
\* that ends normally has read every line.
C4_ExactlyOnePlace ==
    /\ pc \in {"loop", "done"} =>
          \A k \in LookedUp :
              /\ IndexRowsOf(base_index[k]) + FaultyRowsOf(base_index[k]) = 1
              /\ IndexRowsOf(base_index[k]) = 1 <=> Matched(k)
              /\ log[k].dest = (IF Matched(k) THEN "films" ELSE "faulty")
    /\ \A k \in LookedUp : k < line => log[k].dest # "pending"
    /\ pc = "done" => line = Len(base_index)

C4_Witness ==
    /\ pc = "done"
    /\ \E j, k \in LookedUp :
        /\ j < k
        /\ FaultyRowsOf(base_index[j]) = 1
        /\ IndexRowsOf(base_index[k]) = 1

\* C5: when the run has gone through the base index (to its end, or to a
\* connectivity abort): if every search resolved, there is no faulty file; if
\* some search failed, the file exists and its rows are the failed lines, in
\* order.
C5_FaultyFileLifecycle ==
    pc \in {"done", "aborted"} =>
        LET failed == {k \in LookedUp : Failed(k)}
        IN  /\ (\A k \in LookedUp : log[k].dest = "films") => ~faulty_films.exists
            /\ failed # {} =>
                /\ faulty_films.exists
                /\ Len(faulty_films.rows) = Cardinality(failed)
                /\ \A k \in failed : FaultyRowsOf(base_index[k]) = 1
                /\ \A a, b \in DOMAIN faulty_films.rows :
                      a < b => \E j, k \in failed :
                          /\ j < k
                          /\ faulty_films.rows[a] = FaultyRow(base_index[j])
                          /\ faulty_films.rows[b] = FaultyRow(base_index[k])

C5_Witness ==
    /\ pc = "done"
    /\ old_faulty
    /\ LookedUp # {}
    /\ \A k \in LookedUp : log[k].dest = "films"
    /\ ~faulty_films.exists

\* C6: when the command has stopped, the faulty file exists only if it has rows.
C6_NoEmptyFaultyFile ==
    (Terminated /\ faulty_films.exists) => Len(faulty_films.rows) > 0

\* C7: in extend mode the films index of before the run is a prefix of the
\* films index at every moment of the run, and when no line was searched the
\* index after the run is the index of before.
C7_ExtendOnlyAppends ==
    mode = "extend" =>
        /\ IsPrefix(old_index, films_index)
        /\ (Terminated /\ LookedUp = {}) => films_index = old_index

C7_Witness ==
    /\ mode = "extend"
    /\ pc = "done"
    /\ Len(old_index) > 0
    /\ Len(films_index) > Len(old_index)

\* C8: in extend mode a line read from the base index is searched if and only
\* if its path is not in the path column of the index of before the run,
\* whatever its title and year.
C8_MembershipByPath ==
    mode = "extend" =>
        \A k \in 1..line :
            k \in LookedUp <=>
                ~(\E r \in DOMAIN old_index :
                      old_index[r].filmpath = base_index[k].filmpath)

\* a line with the identity of a stored row under another path is searched,
\* and a line with the path of a stored row under another title is skipped
C8_Witness ==
    /\ mode = "extend"
    /\ pc = "done"
    /\ \E k \in LookedUp : \E r \in DOMAIN old_index :
          /\ old_index[r].filmname = base_index[k].filmname
          /\ old_index[r].filmyear = base_index[k].filmyear
    /\ \E k \in (1..line) \ LookedUp : \E r \in DOMAIN old_index :
          /\ old_index[r].filmpath = base_index[k].filmpath
          /\ old_index[r].filmname # base_index[k].filmname

(***************************************************************************)
(* Properties of create_films_tree                                         *)
(***************************************************************************)
\* C9: after a run that completes, every row has, under every group value of
\* the selected column, a link named after its base filename that points to
\* the row's own path.
C9_EveryRowLinked ==
    pc = "tree_done" =>
        \A k \in DOMAIN films_index :
            LET r == films_index[k]
                data == Split(Data(r, type), Sep)
            IN  \A d \in DOMAIN data :
                    \E l \in LinkAt(links, data[d], Basename(r.filmpath)) :
                        l.target = r.filmpath

\* C10 as stated: the second of two runs in succession creates no link and
\* leaves the links as the first run left them.
C10_SecondRunCreatesNothing ==
    (pc = "tree_done" /\ run >= 2) => (created = {} /\ links = prev_links)

\* C10 as amended: a run that follows a run leaves the links as they were, and
\* the only links it creates replace broken symbolic links whose film file does
\* not exist; while any run is going, a link that it created did not resolve
\* when the run started.
C10_RerunKeepsLinkSet ==
    /\ (pc = "tree_done" /\ run >= 2) =>
          /\ links = prev_links
          /\ \A c \in created :
                /\ c.target \notin film_files
                /\ c.kind = "sym"
                /\ LExists(prev_links, c.dir, c.name)
    /\ \A c \in created : ~Exists(prev_links, film_files, c.dir, c.name)

C10_Witness ==
    /\ pc = "tree_done"
    /\ run = 2
    /\ created # {}
    /\ \E l \in links : l.target \in film_files /\ l \notin created

(***************************************************************************)
(* generate_base_index                                                     *)
(***************************************************************************)
MaxFound == 3      \* files under libroot

Ext_avi == <<".", "a", "v", "i">>
Ext_mkv == <<".", "m", "k", "v">>
Ext_mp4 == <<".", "m", "p", "4">>
Ext_m4v == <<".", "m", "4", "v">>
Ext_xvid == <<".", "x", "v", "i", "d">>
Ext_divx == <<".", "d", "i", "v", "x">>
Ext_txt == <<".", "t", "x", "t">>

Extensions == {Ext_avi, Ext_mkv, Ext_mp4, Ext_m4v, Ext_xvid, Ext_divx}

\* the index of the last "." of a name, or 0
LastDot(name) ==
    LET dots == {k \in DOMAIN name : name[k] = "."}
    IN  IF dots = {} THEN 0 ELSE CHOOSE k \in dots : \A h \in dots : h <= k

\* PurePath.suffix: from the last ".", unless it begins or ends the name
Suffix(name) ==
    LET k == LastDot(name)
    IN  IF 1 < k /\ k < Len(name) THEN SubSeq(name, k, Len(name)) ELSE <<>>

\* PurePath.stem
Stem(name) ==
    LET k == LastDot(name)
    IN  IF 1 < k /\ k < Len(name) THEN SubSeq(name, 1, k - 1) ELSE name

Dir_lib == <<"/", "l", "i", "b">>
Dir_lib_x == Dir_lib \o <<"/", "x">>
Dir_lib_y == Dir_lib \o <<"/", "y">>
Dir_lib_z == Dir_lib \o <<"/", "z">>

\* the code points of the digits zero of the scripts of Unicode, ASCII apart;
\* the nine code points that follow each are its digits one to nine
DigitZeros ==
    { 1632, 1776, 1984, 2406, 2534, 2662, 2790, 2918,
      3046, 3174, 3302, 3430, 3558, 3664, 3792, 3872,
      4160, 4240, 6112, 6160, 6470, 6608, 6784, 6800,
      6992, 7088, 7232, 7248, 42528, 43216, 43264, 43472,
      43504, 43600, 44016, 65296, 66720, 68912, 69734, 69872,
      69942, 70096, 70384, 70736, 70864, 71248, 71360, 71472,
      71904, 72016, 72784, 73040, 73120, 92768, 92864, 93008,
      120782, 120792, 120802, 120812, 120822, 123200, 123632, 125264,
      130032 }

\* \d of a str pattern: the decimal digits of Unicode
Digits ==
    {"0", "1", "2", "3", "4", "5", "6", "7", "8", "9"}
        \cup {"U+" \o ToString(z + k) : z \in DigitZeros, k \in 0..9}

\* \s of a str pattern, and what str.strip() removes: the characters c with
\* c.isspace()
Whitespace ==
    {" ", "\t", "\n", "\f", "\r"}
        \cup {"U+" \o ToString(c) :
                 c \in {11, 28, 29, 30, 31, 133, 160, 5760, 8232, 8233, 8239, 8287, 12288}
                          \cup (8192..8202)}

Stem_P1997_T == <<"(", "1", "9", "9", "7", ")", " ", "T">>
Stem_B1997_T_x == <<"[", "1", "9", "9", "7", "]", " ", "T", " ", "[", "x", "]">>
Stem_P2009_U == <<"(", "2", "0", "0", "9", ")", " ", "U">>
Stem_T_1997 == <<"T", " ", "1", "9", "9", "7">>
\* the year in Arabic-Indic digits
Stem_A1997_T == <<"(", "U+1633", "U+1641", "U+1641", "U+1639", ")", " ", "T">>
\* a carriage return after the year, a no-break space after the title
Stem_P1997_cr_T_nbsp == <<"(", "1", "9", "9", "7", ")", "\r", "T", "U+160">>

\* files under libroot: [dir, name]
LibFiles ==
    { [dir |-> Dir_lib, name |-> Stem_P1997_T \o Ext_mkv],
      [dir |-> Dir_lib_x, name |-> Stem_B1997_T_x \o Ext_mkv],
      [dir |-> Dir_lib_y, name |-> Stem_P1997_T \o Ext_mp4],
      [dir |-> Dir_lib, name |-> Stem_P2009_U \o Ext_avi],
      [dir |-> Dir_lib, name |-> Stem_T_1997 \o Ext_mkv],
      [dir |-> Dir_lib, name |-> Stem_A1997_T \o Ext_mkv],
      [dir |-> Dir_lib_z, name |-> Stem_P1997_cr_T_nbsp \o Ext_mkv],
      [dir |-> Dir_lib, name |-> Stem_P1997_T \o Ext_txt] }

DistinctFiles(fs) == \A a, b \in DOMAIN fs : a # b => fs[a] # fs[b]

RECURSIVE RStrip(_)
\* str.rstrip()
RStrip(t) ==
    IF Len(t) > 0 /\ t[Len(t)] \in Whitespace
    THEN RStrip(SubSeq(t, 1, Len(t) - 1))
    ELSE t

\* the end of the longest run of characters other than "[" from position 8
NameEnd(stem) ==
    LET stops == {k \in 8..Len(stem) : stem[k] = "["}
    IN  IF stops = {} THEN Len(stem)
        ELSE (CHOOSE k \in stops : \A h \in stops : k <= h) - 1

\* filmname_pattern.match(stem) for the default pattern
\* ^[([](?P<year>\d{4})[])]\s(?P<filmname>[^[]+)(?:\[|$) : None, or the groups
FMatch(stem) ==
    IF /\ Len(stem) >= 8
       /\ stem[1] \in {"(", "["}
       /\ \A k \in 2..5 : stem[k] \in Digits
       /\ stem[6] \in {"]", ")"}
       /\ stem[7] \in Whitespace
       /\ stem[8] # "["
    THEN Some([filmname |-> SubSeq(stem, 8, NameEnd(stem)), year |-> SubSeq(stem, 2, 5)])
    ELSE None

\* lines 117-118 and 121
FTuple(m) == <<RStrip(m.filmname), m.year>>

\* line 122, under line 120
IsDuplicate(ftuple, fs, nd) == nd /\ ftuple \in fs

\* a variant that never records what it has seen
FilmsSetAfter_Forgot(fs, ftuple, nd) == fs

\* line 125, under line 120
FilmsSetAfter(fs, ftuple, nd) == IF nd THEN fs \cup {ftuple} ELSE fs

\* line 126
BaseRow(ftuple, file) == [filmname |-> ftuple[1], filmyear |-> ftuple[2], filmpath |-> file]

gfi_rest == <<key_file, base_exists, faulty_films, mode, omdb_key, key_check,
              processed_films, write_mode, line, cur, metadata, url, i, res,
              attempts, old_index, old_faulty, log>>

\* lines 111-113: base_index.tsv is opened for writing
GbiStart ==
    /\ pc = "gbi_start"
    /\ numfilms' = 0
    /\ films_set' = {}
    /\ base_index' = <<>>
    /\ pc' = "gbi_loop"
    /\ UNCHANGED <<gfi_rest, tree_vars, pat_vars, filmo_vars, cmd_vars,
                   films_index, found, nodups, pos>>

\* lines 106 and 114-129: the next file
GbiStep ==
    /\ pc = "gbi_loop"
    /\ pos < Len(found)
    /\ pos' = pos + 1
    /\ LET filepath == found[pos + 1]
           fmatch == FMatch(Stem(filepath.name))
       IN  IF Suffix(filepath.name) \notin Extensions \/ fmatch = None
           THEN UNCHANGED <<films_set, base_index, numfilms>>
           ELSE IF IsDuplicate(FTuple(fmatch[1]), films_set, nodups)
           THEN UNCHANGED <<films_set, base_index, numfilms>>
           ELSE /\ films_set' = FilmsSetAfter(films_set, FTuple(fmatch[1]), nodups)
                /\ base_index' = Append(base_index, BaseRow(FTuple(fmatch[1]), filepath))
                /\ numfilms' = numfilms + 1
    /\ UNCHANGED <<gfi_rest, tree_vars, pat_vars, filmo_vars, cmd_vars,
                   films_index, pc, found, nodups>>

\* line 130
GbiFinish ==
    /\ pc = "gbi_loop"
    /\ pos = Len(found)
    /\ pc' = "gbi_done"
    /\ UNCHANGED <<gfi_vars, tree_vars, ext_vars, films_index>>

GfiRestIdle ==
    /\ key_file = None
    /\ base_exists = TRUE
    /\ faulty_films = [exists |-> FALSE, rows |-> <<>>]
    /\ mode = "extend"
    /\ omdb_key = ""
    /\ key_check = "none"
    /\ processed_films = {}
    /\ write_mode = ""
    /\ line = 0
    /\ cur = None
    /\ metadata = None
    /\ url = NoUrl
    /\ i = 0
    /\ res = NoRes
    /\ attempts = <<>>
    /\ old_index = <<>>
    /\ old_faulty = FALSE
    /\ log = <<>>

\* a base index left by an earlier run
OldBaseIndexes ==
    { <<>>,
      << BaseRow(<<<<"U">>, <<"2", "0", "0", "9">>>>,
                 [dir |-> Dir_lib, name |-> Stem_P2009_U \o Ext_avi]) >> }

GbiInit ==
    /\ GfiRestIdle
    /\ TreeIdle
    /\ PatIdle
    /\ FilmoIdle
    /\ CmdIdle
    /\ films_index = <<>>
    /\ base_index \in OldBaseIndexes
    /\ found \in {fs \in SeqsUpTo(LibFiles, MaxFound) : DistinctFiles(fs)}
    /\ nodups \in BOOLEAN
    /\ pos = 0
    /\ films_set = {}
    /\ numfilms = 0
    /\ pc = "gbi_start"

GbiNext ==
    \/ GbiStart
    \/ GbiStep
    \/ GbiFinish

SpecGbi == GbiInit /\ [][GbiNext]_vars

(***************************************************************************)
(* Properties of generate_base_index                                       *)
(***************************************************************************)
\* file k of the enumeration is a film file whose name matches the pattern
Parsed(k) ==
    /\ Suffix(found[k].name) \in Extensions
    /\ FMatch(Stem(found[k].name)) # None

IdentOf(k) == FTuple(FMatch(Stem(found[k].name))[1])

\* the files among the first n that are to have a row
Kept(n) ==
    {k \in 1..n :
        /\ Parsed(k)
        /\ nodups => \A j \in 1..(k - 1) : Parsed(j) => IdentOf(j) # IdentOf(k)}

\* the r-th smallest member of a set of numbers
Nth(S, r) == CHOOSE k \in S : Cardinality({j \in S : j <= k}) = r

\* C11: the rows written are, in the order of enumeration: with --nodups, the
\* first file of each (title, year) among the files that match the pattern, so
\* that no identity has two rows; without it, every file that matches.
C11_DedupKeepsFirst ==
    pc \in {"gbi_loop", "gbi_done"} =>
        /\ Len(base_index) = Cardinality(Kept(pos))
        /\ numfilms = Len(base_index)
        /\ \A r \in DOMAIN base_index :
              /\ base_index[r].filmpath = found[Nth(Kept(pos), r)]
              /\ <<base_index[r].filmname, base_index[r].filmyear>>
                    = IdentOf(Nth(Kept(pos), r))
        /\ nodups => \A a, b \in DOMAIN base_index :
              (/\ base_index[a].filmname = base_index[b].filmname
               /\ base_index[a].filmyear = base_index[b].filmyear) => a = b
        /\ ~nodups => Len(base_index) = Cardinality({k \in 1..pos : Parsed(k)})

\* a run with --nodups that skipped a later file of an identity, and kept a
\* file of another identity
C11_Witness ==
    /\ pc = "gbi_done"
    /\ nodups
    /\ Len(base_index) = 2
    /\ Cardinality({k \in 1..pos : Parsed(k)}) = 3
(***************************************************************************)
(* populate_actors_tree                                                    *)
(***************************************************************************)
MaxActors == 2     \* lines of actors_filmography.tsv

Tab == <<"\t">>
Bar == <<"|">>
BarBar == <<" ", "|", "|", " ">>
Newline == <<"\n">>

Year_1997 == <<"1", "9", "9", "7">>
Year_2009 == <<"2", "0", "0", "9">>
Title_T == <<"T">>
Title_sp_T == <<" ", "T">>
Title_U == <<"U">>
Rating_7_5 == <<"7", ".", "5">>
Rating_8_0 == <<"8", ".", "0">>
Rating_7_1 == <<"7", ".", "1">>
Text_L == <<"L">>
Nmcode == <<"n", "m", "1">>

RECURSIVE LStrip(_)
LStrip(t) ==
    IF Len(t) > 0 /\ t[1] \in Whitespace
    THEN LStrip(Tail(t))
    ELSE t

\* str.strip()
Strip(t) == LStrip(RStrip(t))

\* a line of base_index.tsv as line 126 writes it; the path is two texts
BaseLine(r) == r.filmname \o Tab \o r.filmyear \o Tab \o r.filmpath \o Newline

\* line.strip().split("\t")
Columns(text) == Split(Strip(text), Tab)

\* line 333: films_dict[k] = v
DictPut(d, k, v) == {e \in d : e.key # k} \cup {[key |-> k, path |-> v]}

RECURSIVE LoadDict(_, _)
\* lines 331-333, up to the first line that line 332 cannot unpack
LoadDict(d, rows) ==
    IF rows = <<>>
    THEN d
    ELSE LET c == Columns(BaseLine(Head(rows)))
         IN  IF Len(c) # 3
             THEN d
             ELSE LoadDict(DictPut(d, <<c[2], c[1]>>, c[3]), Tail(rows))

\* line 332 unpacks three columns
Loadable(rows) == \A k \in DOMAIN rows : Len(Columns(BaseLine(rows[k]))) = 3

\* a variant that looks the title up whatever the year
Lookup_AnyYear(d, fyear, fname) ==
    IF \E e \in d : e.key[2] = fname
    THEN Some((CHOOSE e \in d : e.key[2] = fname).path)
    ELSE None

\* lines 346-347: None, or films_dict[(fyear, fname)]
Lookup(d, fyear, fname) ==
    IF \E e \in d : e.key = <<fyear, fname>>
    THEN Some((CHOOSE e \in d : e.key = <<fyear, fname>>).path)
    ELSE None

\* lines 348-350 and 353: the name of the link
LinkName(rating, filmpath, ratings) ==
    IF ratings
    THEN <<"[">> \o rating \o <<"]", " ", Basename(filmpath)>>
    ELSE <<Basename(filmpath)>>

\* line 442: an entry of a filmography
FilmEntry(rating, year, title) == rating \o Bar \o year \o Bar \o title

\* line 445: the filmographies of the inputs
Filmographies ==
    { FilmEntry(Rating_7_1, Year_1997, Title_U) \o BarBar
          \o FilmEntry(Rating_7_5, Year_1997, Title_T),
      FilmEntry(Rating_7_5, Year_1997, Title_T) \o BarBar
          \o FilmEntry(Rating_8_0, Year_2009, Title_U) }

\* line 307: a line of actors_filmography.tsv
ActorLine(actor_name, nmcode, filmography) ==
    actor_name \o Tab \o nmcode \o Tab \o filmography \o Newline

ActorLines ==
    {ActorLine(Text_K, Nmcode, f) : f \in Filmographies}
        \cup {ActorLine(Text_L, Nmcode, FilmEntry(Rating_7_1, Year_1997, Title_U)),
              ActorLine(Text_L, Nmcode, FilmEntry(Rating_7_5, Year_1997, Title_T))}

\* rows of base_index.tsv as generate_base_index writes them; the last is the
\* row of a file whose title is blank
PatBaseEntries ==
    { [filmname |-> Title_T, filmyear |-> Year_1997, filmpath |-> <<"/lib", "a.mkv">>],
      [filmname |-> Title_T, filmyear |-> Year_1997, filmpath |-> <<"/lib", "b.mkv">>],
      [filmname |-> Title_sp_T, filmyear |-> Year_1997, filmpath |-> <<"/lib/x", "a.mkv">>],
      [filmname |-> Title_U, filmyear |-> Year_2009, filmpath |-> <<"/lib/x", "a.mkv">>],
      [filmname |-> <<>>, filmyear |-> Year_1997, filmpath |-> <<"/lib", "b.mkv">>] }

PatBaseIndexes == {s \in SeqsUpTo(PatBaseEntries, MaxFilms) : DistinctPaths(s)}

\* a tree left by earlier runs: none, or a symbolic link to a film that has moved
PatOldTrees ==
    { {},
      {[dir |-> Text_K, name |-> <<"a.mkv">>, kind |-> "sym",
        target |-> <<"/old", "a.mkv">>]} }

\* lines 321-339: the files are looked for and the base index is loaded
PatStart ==
    /\ pc = "pat_start"
    /\ IF ~filmography_exists \/ ~base_exists
       THEN /\ pc' = "pat_stopped"
            /\ films_dict' = films_dict
       ELSE IF ~Loadable(base_index)
       THEN /\ pc' = "pat_value_error"
            /\ films_dict' = LoadDict({}, base_index)
       ELSE /\ pc' = "pat_loop"
            /\ films_dict' = LoadDict({}, base_index)
    /\ UNCHANGED <<gfi_vars, tree_vars, gbi_vars, filmo_vars, cmd_vars,
                   films_index, filmography_exists, actors_filmography,
                   include_ratings, actor_i, film_i>>

\* lines 342-358: one film of the current line
PatStep ==
    /\ pc = "pat_loop"
    /\ actor_i < Len(actors_filmography)
    /\ LET cols == Columns(actors_filmography[actor_i + 1])
           actor_name == cols[1]
           films_list == Split(cols[3], BarBar)
           parts == Split(films_list[film_i + 1], Bar)
           rating == parts[1]
           hit == Lookup(films_dict, parts[2], parts[3])
           filmpath == hit[1]
           linkname == LinkName(rating, filmpath, include_ratings)
       IN  IF Len(cols) # 3 \/ Len(parts) # 3
           THEN /\ pc' = "pat_value_error"
                /\ UNCHANGED <<dirs, links, created, actor_i, film_i>>
           ELSE IF hit = None
           THEN /\ UNCHANGED <<dirs, links, created, pc>>
                /\ IF film_i + 1 = Len(films_list)
                   THEN /\ actor_i' = actor_i + 1
                        /\ film_i' = 0
                   ELSE /\ actor_i' = actor_i
                        /\ film_i' = film_i + 1
           ELSE /\ dirs' = dirs \cup {actor_name}
                /\ IF MustLink(links, film_files, actor_name, linkname)
                   THEN IF CanLink(create_symlinks, film_files, filmpath)
                        THEN /\ links' = Unlinked(links, actor_name, linkname)
                                  \cup {NewLink(create_symlinks, actor_name,
                                                linkname, filmpath)}
                             /\ created' = created \cup
                                  {NewLink(create_symlinks, actor_name,
                                           linkname, filmpath)}
                             /\ pc' = pc
                        ELSE /\ links' = Unlinked(links, actor_name, linkname)
                             /\ created' = created
                             /\ pc' = "pat_crashed"
                   ELSE UNCHANGED <<links, created, pc>>
                /\ IF /\ MustLink(links, film_files, actor_name, linkname)
                      /\ ~CanLink(create_symlinks, film_files, filmpath)
                   THEN UNCHANGED <<actor_i, film_i>>
                   ELSE IF film_i + 1 = Len(films_list)
                   THEN /\ actor_i' = actor_i + 1
                        /\ film_i' = 0
                   ELSE /\ actor_i' = actor_i
                        /\ film_i' = film_i + 1
    /\ UNCHANGED <<gfi_vars, gbi_vars, filmo_vars, cmd_vars, films_index, type,
                   create_symlinks, film_files, row, datum_i, run, prev_links,
                   filmography_exists, actors_filmography, include_ratings,
                   films_dict>>

\* the loop of line 342 ends
PatFinish ==
    /\ pc = "pat_loop"
    /\ actor_i = Len(actors_filmography)
    /\ pc' = "pat_done"
    /\ UNCHANGED <<gfi_vars, tree_vars, ext_vars, films_index>>

PatInit ==
    /\ \/ GfiIdle
       \/ GfiRestIdle /\ base_index \in PatBaseIndexes
    /\ GbiIdle
    /\ FilmoIdle
    /\ CmdIdle
    /\ films_index = <<>>
    /\ filmography_exists \in BOOLEAN
    /\ actors_filmography \in (IF filmography_exists
                               THEN SeqsUpTo(ActorLines, MaxActors)
                               ELSE {<<>>})
    /\ include_ratings \in BOOLEAN
    /\ films_dict = {}
    /\ actor_i = 0
    /\ film_i = 0
    /\ type = "actor"
    /\ create_symlinks \in BOOLEAN
    /\ film_files \in {Paths, Paths \ {<<"/lib", "a.mkv">>}}
    /\ links \in PatOldTrees
    /\ dirs = {l.dir : l \in links}
    /\ row = 0
    /\ datum_i = 0
    /\ run = 0
    /\ created = {}
    /\ prev_links = links
    /\ pc = "pat_start"

PatNext ==
    \/ PatStart
    \/ PatStep
    \/ PatFinish

SpecPat == PatInit /\ [][PatNext]_vars

(***************************************************************************)
(* Properties of populate_actors_tree                                      *)
(***************************************************************************)
\* the identity of a row of the base index: (year, title), the title trimmed
RowIdent(r) == <<r.filmyear, Strip(r.filmname)>>

ActorOf(a) == Columns(actors_filmography[a])[1]

EntriesOf(a) == Split(Columns(actors_filmography[a])[3], BarBar)

\* entry e = <<a, j>> is the j-th film of line a: <<rating, year, title>>
EntryAt(e) == Split(EntriesOf(e[1])[e[2]], Bar)

\* the rows of the base index whose identity is that of entry e
MatchRows(e) ==
    LET x == EntryAt(e)
    IN  {r \in DOMAIN base_index : RowIdent(base_index[r]) = <<x[2], x[3]>>}

\* the entries processed so far
DoneEntries ==
    UNION { {<<a, j>> : j \in {h \in DOMAIN EntriesOf(a) : a <= actor_i \/ h <= film_i}} :
            a \in {b \in DOMAIN actors_filmography : b <= actor_i + 1} }

\* the entries reached so far: those processed, and the one that stopped the run
Reached ==
    DoneEntries \cup
        (IF pc = "pat_crashed" THEN {<<actor_i + 1, film_i + 1>>} ELSE {})

\* C12: once the base index is loaded, the path of every one of its rows is
\* held under the row's identity, so that no path has been overwritten by
\* another path of the same (title, year).
C12_NoPathOverwritten ==
    pc \in {"pat_loop", "pat_done", "pat_crashed"} =>
        \A r \in DOMAIN base_index :
            \E e \in films_dict :
                /\ e.key = RowIdent(base_index[r])
                /\ e.path = base_index[r].filmpath

\* C13: every processed entry whose (year, title) is the identity of a row of
\* the base index has its actor's directory and a link at the link path of such
\* a row; every link made and every directory made belongs to such an entry, so
\* an entry that matches no row makes neither; no entry stops the run unless it
\* matches a row, and a run that ends has processed every entry of every actor.
C13_LinkIffMatched ==
    /\ pc \in {"pat_loop", "pat_done", "pat_crashed"} =>
          LET done == DoneEntries
              \* per entry reached: its actor, its rating, the paths of its rows
              info == {[done |-> e \in done,
                        actor |-> ActorOf(e[1]),
                        rating |-> EntryAt(e)[1],
                        paths |-> {base_index[r].filmpath : r \in MatchRows(e)}] :
                       e \in Reached}
          IN  /\ \A x \in info :
                    (x.done /\ x.paths # {}) =>
                        /\ x.actor \in dirs
                        /\ \E p \in x.paths :
                              LExists(links, x.actor,
                                      LinkName(x.rating, p, include_ratings))
              /\ \A l \in created :
                    \E x \in info :
                        /\ l.dir = x.actor
                        /\ l.target \in x.paths
                        /\ l.name = LinkName(x.rating, l.target, include_ratings)
              /\ links \ prev_links \subseteq created
              /\ \A d \in dirs :
                    \/ \E l \in prev_links : l.dir = d
                    \/ \E x \in info : x.actor = d /\ x.paths # {}
    /\ pc = "pat_done" => actor_i = Len(actors_filmography)
    /\ pc = "pat_crashed" => MatchRows(<<actor_i + 1, film_i + 1>>) # {}

\* a run that ended after an entry without a row, then an entry with a row for
\* which it made a link, and that left an actor without a directory
C13_Witness ==
    /\ pc = "pat_done"
    /\ \E e, f \in DoneEntries :
          /\ MatchRows(e) = {}
          /\ MatchRows(f) # {}
          /\ e[1] < f[1] \/ (e[1] = f[1] /\ e[2] < f[2])
          /\ \E l \in created : l.dir = ActorOf(f[1])
    /\ \E a \in DOMAIN actors_filmography : ActorOf(a) \notin dirs
(***************************************************************************)
(* _get_imdb_actor_filmography                                             *)
(***************************************************************************)
MaxPages == 3      \* range(1,4)
PageSize == 50     \* entries of a full page

\* a variant that compares with one page whatever the page number
Break_OnePage(len, page) == len < PageSize

\* line 443: the test that leaves the loop
Break(len, page) == len < page * PageSize

\* a page as the loop of lines 429-442 sees it: the films on it and how many
\* of them have a rating that reaches min_rating
FilmoPages == {p \in [films : 0..PageSize, good : 0..PageSize] : p.good <= p.films}

\* line 442: the entry of a good film of a page; the films of a page are alike
PageEntry(page) ==
    IF page = 1 THEN FilmEntry(Rating_8_0, Year_2009, Title_U)
    ELSE IF page = 2 THEN FilmEntry(Rating_7_5, Year_1997, Title_T)
    ELSE FilmEntry(Rating_7_1, Year_1997, Title_U)

\* line 442, once per good film
Appended(list, page, n) == list \o [k \in 1..n |-> PageEntry(page)]

\* line 423
FilmoStart ==
    /\ pc = "filmo_start"
    /\ filmography_list' = <<>>
    /\ page_num' = 0
    /\ pages' = <<>>
    /\ pc' = "filmo_loop"
    /\ UNCHANGED <<gfi_vars, tree_vars, gbi_vars, pat_vars, cmd_vars, films_index>>

\* lines 424-444: a page is fetched and read, and the loop goes on or ends
FilmoPage ==
    /\ pc = "filmo_loop"
    /\ page_num < MaxPages
    /\ \E p \in FilmoPages :
          /\ page_num' = page_num + 1
          /\ filmography_list' = Appended(filmography_list, page_num + 1, p.good)
          /\ pages' = Append(pages, p)
          /\ pc' = IF \/ Break(Len(filmography_list) + p.good, page_num + 1)
                      \/ page_num + 1 = MaxPages
                   THEN "filmo_return"
                   ELSE "filmo_loop"
    /\ UNCHANGED <<gfi_vars, tree_vars, gbi_vars, pat_vars, cmd_vars, films_index>>

\* line 427: _get_url ends the process
FilmoAbort ==
    /\ pc = "filmo_loop"
    /\ page_num < MaxPages
    /\ page_num' = page_num + 1
    /\ pc' = "aborted"
    /\ UNCHANGED <<gfi_vars, tree_vars, gbi_vars, pat_vars, cmd_vars, films_index,
                   filmography_list, pages>>

\* line 445
FilmoReturn ==
    /\ pc = "filmo_return"
    /\ pc' = "filmo_done"
    /\ UNCHANGED <<gfi_vars, tree_vars, ext_vars, films_index>>

FilmoInit ==
    /\ GfiIdle
    /\ TreeIdle
    /\ GbiIdle
    /\ PatIdle
    /\ FilmoIdle
    /\ CmdIdle
    /\ films_index = <<>>
    /\ pc = "filmo_start"

FilmoNext ==
    \/ FilmoStart
    \/ FilmoPage
    \/ FilmoAbort
    \/ FilmoReturn

SpecFilmo == FilmoInit /\ [][FilmoNext]_vars

(***************************************************************************)
(* Properties of _get_imdb_actor_filmography                               *)
(***************************************************************************)
\* C15: at most 3 pages are fetched; every page before the last one fetched
\* gave a full page (50) of entries, and when the function returns, the last
\* page fetched is page 3 or gave less than a full page: page k+1 is fetched
\* if and only if k < 3 and page k gave 50 entries.  The list holds what the
\* pages gave.
C15_NextPageIffFull ==
    /\ pc \in {"filmo_loop", "filmo_return", "filmo_done"} =>
          /\ Len(pages) = page_num
          /\ page_num <= MaxPages
          /\ \A k \in 1..(Len(pages) - 1) : pages[k].good = PageSize
          /\ \A k \in DOMAIN pages :
                Cardinality({n \in DOMAIN filmography_list :
                                filmography_list[n] = PageEntry(k)})
                    = pages[k].good
          /\ pc = "filmo_loop" =>
                /\ page_num < MaxPages
                /\ \A k \in DOMAIN pages : pages[k].good = PageSize
          /\ pc \in {"filmo_return", "filmo_done"} =>
                /\ page_num >= 1
                /\ page_num = MaxPages \/ pages[page_num].good < PageSize
    /\ pc = "aborted" =>
          /\ page_num <= MaxPages
          /\ \A k \in DOMAIN pages : pages[k].good = PageSize

\* a call that returned after a full first page and a second page of 50 films
\* of which some were not good enough
C15_Witness ==
    /\ pc = "filmo_done"
    /\ Len(pages) = 2
    /\ pages[1].good = PageSize
    /\ pages[2].films = PageSize
    /\ pages[2].good = PageSize - 1
    /\ Len(filmography_list) = 2 * PageSize - 1

(***************************************************************************)
(* normalize_film_files                                                    *)
(***************************************************************************)
call_vars == <<url, i, res, attempts>>
gfi_quiet == <<key_file, base_exists, base_index, faulty_films, mode, omdb_key,
               key_check, processed_films, write_mode, line, cur, metadata,
               old_index, old_faulty, log>>

Slash == <<"/">>
Space == <<" ">>

Dir_T == Dir_lib \o <<"/", "T">>
Dir_P1997_T == Dir_lib \o Slash \o Stem_P1997_T
Dir_tree == Dir_lib \o <<"/", "F", "i", "l", "m", "s", " ", "b", "y", " ", "G", "e", "n", "r", "e">>
Dir_tree_D == Dir_tree \o <<"/", "D">>

Stem_T_P1997 == <<"T", " ", "(", "1", "9", "9", "7", ")">>
Stem_P1997T == <<"(", "1", "9", "9", "7", ")", "T">>

\* os.path.abspath(filepath)
AbsPath(f) == f.dir \o Slash \o f.name

\* the Path of a path text
FileOf(path) ==
    LET cuts == {k \in DOMAIN path : path[k] = "/"}
        k == CHOOSE c \in cuts : \A h \in cuts : h <= c
    IN  [dir |-> SubSeq(path, 1, k - 1), name |-> SubSeq(path, k + 1, Len(path))]

\* the directory that holds a directory
Parent(d) == FileOf(d).dir

\* directory a lies somewhere under directory b
IsUnder(a, b) ==
    /\ Len(b) < Len(a)
    /\ SubSeq(a, 1, Len(b)) = b
    /\ a[Len(b) + 1] = "/"

\* old occurs in s at position k
OccursAt(s, k, old) ==
    /\ k + Len(old) - 1 <= Len(s)
    /\ SubSeq(s, k, k + Len(old) - 1) = old

RECURSIVE Replace(_, _, _)
\* s.replace(old, new) for an old that is not empty: every occurrence, from the left
Replace(s, old, new) ==
    IF s = <<>> THEN <<>>
    ELSE IF OccursAt(s, 1, old)
    THEN new \o Replace(SubSeq(s, Len(old) + 1, Len(s)), old, new)
    ELSE <<s[1]>> \o Replace(Tail(s), old, new)

\* [([]\d{4}[])] matches s at position k
YearAt(s, k) ==
    /\ k + 5 <= Len(s)
    /\ s[k] \in {"(", "["}
    /\ \A h \in 1..4 : s[k + h] \in Digits
    /\ s[k + 5] \in {"]", ")"}

\* re.search(r"(?P<year>[([]\d{4}[])])", stem): None, or group 'year'
SearchYear(stem) ==
    LET at == {k \in DOMAIN stem : YearAt(stem, k)}
        k == CHOOSE c \in at : \A h \in at : c <= h
    IN  IF at = {} THEN None ELSE Some(SubSeq(stem, k, k + 5))

RECURSIVE SubYears(_)
\* re.sub(r'\s[([]\d{4}[])]', '', stem)
SubYears(s) ==
    IF s = <<>> THEN <<>>
    ELSE IF s[1] \in Whitespace /\ YearAt(s, 2)
    THEN SubYears(SubSeq(s, 8, Len(s)))
    ELSE <<s[1]>> \o SubYears(Tail(s))

\* lines 57-59
YearFirst(stem) == SearchYear(stem)[1] \o Space \o SubYears(stem)

\* lines 81-84
WithYear(stem, year, postfix) ==
    IF postfix THEN stem \o Space \o year ELSE year \o Space \o stem

\* line 64
TitleUrl(stem) == [svc |-> "title", title |-> stem]

\* what the user may type at line 71
TypedStems == {Stem_P1997_T, Title_T}

\* the files at a path
FilesAt(files, path) == {g \in files : AbsPath(g) = path}

\* os.rename(abspath, newpath) fails: no such directory, or newpath is a directory
RenameFails(ds, newpath) ==
    \/ FileOf(newpath).dir \notin ds
    \/ FileOf(newpath).name = <<>>
    \/ newpath \in ds

\* os.rename(abspath, newpath): a file at newpath is replaced, unless it is
\* a hard link of the file renamed, and then nothing happens
Renamed(files, abspath, newpath) ==
    LET old == CHOOSE g \in files : AbsPath(g) = abspath
        at == FilesAt(files, newpath)
        new == FileOf(newpath)
    IN  IF \E g \in at : g.ino = old.ino
        THEN files
        ELSE (files \ ({old} \cup at))
                 \cup {[old EXCEPT !.dir = new.dir, !.name = new.name]}

\* lines 60-62, 72-73 and 85-86: the file is renamed, or os.rename raises
Rename(filepath, new_stem) ==
    LET abspath == AbsPath(filepath)
        newpath == Replace(abspath, Stem(filepath.name), new_stem)
    IN  IF RenameFails(lib_dirs, newpath)
        THEN /\ pc' = "nff_crashed"
             /\ UNCHANGED <<lib_files, pos>>
        ELSE /\ pc' = "nff_loop"
             /\ lib_files' = Renamed(lib_files, abspath, newpath)
             /\ pos' = pos + 1

\* the orders in which a set can be listed
Orderings(S) ==
    {w \in [1..Cardinality(S) -> S] : \A a, b \in DOMAIN w : a # b => w[a] # w[b]}

\* line 48: rglob reaches the next directory and lists it; it yields the
\* entries of one directory in the order the file system gives them
NffList ==
    /\ pc = "nff_loop"
    /\ pos = Len(found)
    /\ walk # <<>>
    /\ found' \in Orderings({[dir |-> f.dir, name |-> f.name] :
                                f \in {g \in lib_files : /\ g.dir = Head(walk)
                                                         /\ Suffix(g.name) \in Extensions}})
    /\ pos' = 0
    /\ walk' = Tail(walk)
    /\ UNCHANGED <<gfi_vars, tree_vars, pat_vars, filmo_vars, gal_vars, gaf_vars,
                   films_index, pc, nodups, films_set, numfilms, lib_files,
                   lib_dirs, interactive, postfix_year>>

\* lines 53-65: the next file; it is left alone, renamed by its own year, or
\* looked up
NffStep ==
    /\ pc = "nff_loop"
    /\ pos < Len(found)
    /\ LET filepath == found[pos + 1]
           stem == Stem(filepath.name)
       IN  IF FMatch(stem) # None
           THEN /\ pos' = pos + 1
                /\ UNCHANGED <<pc, lib_files, call_vars>>
           ELSE IF SearchYear(stem) # None
           THEN /\ Rename(filepath, YearFirst(stem))
                /\ UNCHANGED call_vars
           ELSE /\ CallUrl(TitleUrl(stem))
                /\ UNCHANGED <<lib_files, pos>>
    /\ UNCHANGED <<gfi_quiet, tree_vars, pat_vars, filmo_vars, gal_vars, gaf_vars,
                   films_index, found, nodups, films_set, numfilms, walk,
                   lib_dirs, interactive, postfix_year>>

\* lines 66-86: _get_url has returned the page of the search
NffReturn ==
    /\ pc = "get_url"
    /\ i = Retries
    /\ url.svc = "title"
    /\ LET filepath == found[pos + 1]
           film_divs == res.divs
       IN  IF interactive /\ Len(film_divs) # 1
           THEN \E new_stem \in TypedStems : Rename(filepath, new_stem)
           ELSE IF Len(film_divs) # 1
           THEN /\ pc' = "nff_loop"
                /\ pos' = pos + 1
                /\ UNCHANGED lib_files
           ELSE Rename(filepath, WithYear(Stem(filepath.name), film_divs[1], postfix_year))
    /\ UNCHANGED <<gfi_vars, tree_vars, pat_vars, filmo_vars, gal_vars, gaf_vars,
                   films_index, found, nodups, films_set, numfilms, walk,
                   lib_dirs, interactive, postfix_year>>

\* line 53: rglob has no more to yield
NffFinish ==
    /\ pc = "nff_loop"
    /\ pos = Len(found)
    /\ walk = <<>>
    /\ pc' = "nff_done"
    /\ UNCHANGED <<gfi_vars, tree_vars, ext_vars, films_index>>

\* the directories under libroot, libroot included
NffDirSets ==
    { {Dir_lib},
      {Dir_lib, Dir_T},
      {Dir_lib, Dir_T, Dir_P1997_T},
      {Dir_lib, Dir_tree, Dir_tree_D} }

\* rglob walks the directories from libroot down, a directory before those
\* under it and one subtree after another
WalkOrders(ds) ==
    {w \in Orderings(ds) :
        /\ w[1] = Dir_lib
        /\ \A k \in 2..Len(w) :
              \E j \in 1..(k - 1) :
                 /\ Parent(w[k]) = w[j]
                 /\ \A h \in (j + 1)..(k - 1) : IsUnder(w[h], w[j])}

\* files under libroot: target is None for a file and the path a symbolic link
\* points to; files with the same ino are hard links of one file
NffFiles ==
    { [dir |-> Dir_lib, name |-> Stem_P1997_T \o Ext_mkv, target |-> None, ino |-> 1],
      [dir |-> Dir_lib, name |-> Stem_T_P1997 \o Ext_mkv, target |-> None, ino |-> 2],
      [dir |-> Dir_lib, name |-> Stem_T_P1997 \o Ext_mkv, target |-> None, ino |-> 1],
      [dir |-> Dir_lib, name |-> Stem_P1997T \o Ext_mkv, target |-> None, ino |-> 3],
      [dir |-> Dir_lib, name |-> Title_T \o Ext_mkv, target |-> None, ino |-> 4],
      [dir |-> Dir_T, name |-> Title_T \o Ext_mkv, target |-> None, ino |-> 5],
      [dir |-> Dir_P1997_T, name |-> Stem_P1997_T \o Ext_mkv, target |-> None, ino |-> 8],
      [dir |-> Dir_tree_D, name |-> Stem_T_P1997 \o Ext_mkv,
       target |-> Some(Dir_lib \o Slash \o Stem_T_P1997 \o Ext_mkv), ino |-> 6],
      [dir |-> Dir_tree_D, name |-> Stem_T_P1997 \o Ext_mkv, target |-> None, ino |-> 2],
      [dir |-> Dir_lib, name |-> Title_T \o Ext_txt, target |-> None, ino |-> 7] }

NffInit ==
    /\ GfiIdle
    /\ TreeIdle
    /\ PatIdle
    /\ FilmoIdle
    /\ GalIdle
    /\ GafIdle
    /\ films_index = <<>>
    /\ nodups = FALSE
    /\ films_set = {}
    /\ numfilms = 0
    /\ lib_dirs \in NffDirSets
    /\ lib_files \in {fs \in SUBSET NffFiles :
                         /\ Cardinality(fs) <= MaxFound
                         /\ \A f \in fs : f.dir \in lib_dirs
                         /\ \A f, g \in fs : AbsPath(f) = AbsPath(g) => f = g}
    /\ interactive \in BOOLEAN
    /\ postfix_year \in BOOLEAN
    /\ walk \in WalkOrders(lib_dirs)
    /\ found = <<>>
    /\ pos = 0
    /\ pc = "nff_loop"

NffNext ==
    \/ NffList
    \/ NffStep
    \/ GetUrlAttempt
    \/ NffReturn
    \/ NffFinish

SpecNff == NffInit /\ [][NffNext]_vars

(***************************************************************************)
(* generate_actors_list                                                    *)
(***************************************************************************)
Categs ==
    << <<"a", "c", "t", "o", "r">>,
       <<"a", "c", "t", "r", "e", "s", "s">>,
       <<"s", "u", "p", "p", "o", "r", "t", "i", "n", "g", "_", "a", "c", "t", "o", "r">>,
       <<"s", "u", "p", "p", "o", "r", "t", "i", "n", "g", "_", "a", "c", "t", "r", "e", "s", "s">> >>

StartIndexes == <<1, 101, 201, 301>>

\* line 273
ActorGroup(categ) ==
    <<"o", "s", "c", "a", "r", "_", "b", "e", "s", "t", "_">> \o categ
        \o <<"_", "n", "o", "m", "i", "n", "e", "e", "s">>

Role_actor == <<"a", "c", "t", "o", "r">>
Role_actress == <<"a", "c", "t", "r", "e", "s", "s">>
Nmcode_2 == <<"n", "m", "2">>

\* sub in s
Contains(s, sub) == Find(s, sub) # 0

\* line 409
Role(actor_group) == IF Contains(actor_group, Role_actress) THEN Role_actress ELSE Role_actor

\* line 408: the query names the group and the start index
NamesUrl(actor_group, start_index) ==
    [svc |-> "names", groups |-> actor_group, start |-> start_index]

\* lines 416-419: (nmcode, role, name) of a block
ActorDatum(block, role) ==
    LET parts == Split(block.href, Slash)
    IN  <<parts[Len(parts)], role, Strip(block.text)>>

\* lines 415-420
ActorData(blocks, role) == [k \in DOMAIN blocks |-> ActorDatum(blocks[k], role)]

\* line 280: a line of actors_list.tsv
ListLine(actor_data) ==
    actor_data[1] \o Tab \o actor_data[2] \o Tab \o actor_data[3] \o Newline

RECURSIVE ListRows(_, _)
\* lines 278-281: one line for the first of each nmcode
ListRows(list, nmcodes_set) ==
    IF list = <<>> THEN <<>>
    ELSE IF Head(list)[1] \in nmcodes_set
    THEN ListRows(Tail(list), nmcodes_set)
    ELSE <<ListLine(Head(list))>> \o ListRows(Tail(list), nmcodes_set \cup {Head(list)[1]})

\* lines 272-275 and 408-412: the next search is sent
GalCall ==
    /\ pc = "gal_loop"
    /\ call_i < Len(Categs) * Len(StartIndexes)
    /\ CallUrl(NamesUrl(ActorGroup(Categs[(call_i \div Len(StartIndexes)) + 1]),
                        StartIndexes[(call_i % Len(StartIndexes)) + 1]))
    /\ UNCHANGED <<gfi_quiet, tree_vars, gbi_vars, pat_vars, filmo_vars, cmd_vars,
                   films_index>>

\* lines 413-420 and 275: _get_url has returned the page of the search
GalReturn ==
    /\ pc = "get_url"
    /\ i = Retries
    /\ url.svc = "names"
    /\ actors_list' = actors_list \o ActorData(res.divs, Role(url.groups))
    /\ call_i' = call_i + 1
    /\ pc' = "gal_loop"
    /\ UNCHANGED <<gfi_vars, tree_vars, gbi_vars, pat_vars, filmo_vars, nff_vars,
                   gaf_vars, films_index>>

\* lines 276-282: actors_list.tsv is written
GalWrite ==
    /\ pc = "gal_loop"
    /\ call_i = Len(Categs) * Len(StartIndexes)
    /\ actors_list_tsv' = [exists |-> TRUE, rows |-> ListRows(actors_list, {})]
    /\ pc' = "gal_done"
    /\ UNCHANGED <<gfi_vars, tree_vars, gbi_vars, pat_vars, filmo_vars, nff_vars,
                   gal_vars, gaf_i, films_index>>

\* actors_list.tsv as it may be found: absent, written by generate_actors_list,
\* or edited by hand
ActorsListLines ==
    { ListLine(<<Nmcode, Role_actor, Text_K>>),
      ListLine(<<Nmcode_2, Role_actress, Text_L>>),
      ListLine(<<<<>>, Role_actor, Text_K>>),
      Newline }

ActorsLists ==
    {[exists |-> FALSE, rows |-> <<>>]}
        \cup {[exists |-> TRUE, rows |-> r] : r \in SeqsUpTo(ActorsListLines, MaxActors)}

GalInit ==
    /\ GfiIdle
    /\ TreeIdle
    /\ GbiIdle
    /\ PatIdle
    /\ FilmoIdle
    /\ NffIdle
    /\ GalIdle
    /\ films_index = <<>>
    /\ actors_list_tsv \in ActorsLists
    /\ gaf_i = 0
    /\ pc = "gal_loop"

GalNext ==
    \/ GalCall
    \/ GetUrlAttempt
    \/ GalReturn
    \/ GalWrite

SpecGal == GalInit /\ [][GalNext]_vars

(***************************************************************************)
(* generate_actors_filmography                                             *)
(***************************************************************************)
RECURSIVE Join(_, _)
\* sep.join(list)
Join(list, sep) ==
    IF list = <<>> THEN <<>>
    ELSE IF Len(list) = 1 THEN list[1]
    ELSE list[1] \o sep \o Join(Tail(list), sep)

\* line 445: what _get_imdb_actor_filmography returns
FilmographyString(list) == Join(list, BarBar)

\* lines 296-300: without actors_list.tsv nothing is done; otherwise
\* actors_filmography.tsv is opened for writing
GafStart ==
    /\ pc = "gaf_start"
    /\ IF ~actors_list_tsv.exists
       THEN /\ pc' = "gaf_stopped"
            /\ UNCHANGED <<filmography_exists, actors_filmography>>
       ELSE /\ pc' = "gaf_loop"
            /\ filmography_exists' = TRUE
            /\ actors_filmography' = <<>>
    /\ UNCHANGED <<gfi_vars, tree_vars, gbi_vars, filmo_vars, cmd_vars, films_index,
                   include_ratings, films_dict, actor_i, film_i>>

\* lines 302-303: the next line of actors_list.tsv is read and unpacked
GafActor ==
    /\ pc = "gaf_loop"
    /\ gaf_i < Len(actors_list_tsv.rows)
    /\ pc' = IF Len(Columns(actors_list_tsv.rows[gaf_i + 1])) # 3
             THEN "gaf_value_error"
             ELSE "filmo_start"
    /\ UNCHANGED <<gfi_vars, tree_vars, ext_vars, films_index>>

\* lines 305-307: the filmography has come back, and is written if not empty
GafWrite ==
    /\ pc = "filmo_done"
    /\ LET c == Columns(actors_list_tsv.rows[gaf_i + 1])
           nmcode == c[1]
           actor_name == c[3]
           filmography_string == FilmographyString(filmography_list)
       IN  actors_filmography' =
               IF filmography_string # <<>>
               THEN Append(actors_filmography,
                           ActorLine(actor_name, nmcode, filmography_string))
               ELSE actors_filmography
    /\ gaf_i' = gaf_i + 1
    /\ pc' = "gaf_loop"
    /\ UNCHANGED <<gfi_vars, tree_vars, gbi_vars, filmo_vars, nff_vars, gal_vars,
                   films_index, filmography_exists, include_ratings, films_dict,
                   actor_i, film_i, actors_list_tsv>>

\* line 302: no line is left, the files are closed
GafFinish ==
    /\ pc = "gaf_loop"
    /\ gaf_i = Len(actors_list_tsv.rows)
    /\ pc' = "gaf_done"
    /\ UNCHANGED <<gfi_vars, tree_vars, ext_vars, films_index>>

\* actors_filmography.tsv as an earlier run may have left it
OldFilmographies ==
    { [exists |-> FALSE, rows |-> <<>>],
      [exists |-> TRUE,
       rows |-> <<ActorLine(Text_L, Nmcode_2, FilmEntry(Rating_7_1, Year_1997, Title_U))>>] }

GafInit ==
    /\ GfiIdle
    /\ TreeIdle
    /\ GbiIdle
    /\ FilmoIdle
    /\ NffIdle
    /\ GalIdle
    /\ films_index = <<>>
    /\ \E old \in OldFilmographies :
          /\ filmography_exists = old.exists
          /\ actors_filmography = old.rows
    /\ include_ratings = FALSE
    /\ films_dict = {}
    /\ actor_i = 0
    /\ film_i = 0
    /\ actors_list_tsv \in ActorsLists
    /\ gaf_i = 0
    /\ pc = "gaf_start"

GafNext ==
    \/ GafStart
    \/ GafActor
    \/ FilmoStart
    \/ FilmoPage
    \/ FilmoAbort
    \/ FilmoReturn
    \/ GafWrite
    \/ GafFinish

SpecGaf == GafInit /\ [][GafNext]_vars

=============================================================================
